---------------------------- MODULE Spec2Model ----------------------------
(* A model of main.js (src/unnamed/part_001): the Express handlers for      *)
(* registration, login, token authentication, role authorization, slug     *)
(* assignment and the blog routes, over a document store of Users and      *)
(* Blogs.  Every `await` of a handler is a point where another request may  *)
(* run, so a handler is a chain of actions, one per store round trip.       *)
(*                                                                          *)
(* Strings the code inspects character by character (titles, slugs) are     *)
(* sequences of one-character strings.  Time is in seconds, the unit of a   *)
(* token's iat/exp.                                                         *)
EXTENDS Integers, Sequences, FiniteSets, TLC

VARIABLES
    users,     \* the User collection, in insertion (natural) order
    blogs,     \* the Blog collection, in insertion (createdAt) order
    reqs,      \* the requests suspended at an await: slot -> frame
    minted,    \* the tokens login has set as the `token` cookie
    now,       \* the clock, in seconds
    last,      \* the response most recently sent, with its request
    nextId,    \* the next ObjectId the driver hands out
    idQuery    \* how the build resolves a filter on the key `id`

vars == <<users, blogs, reqs, minted, now, last, nextId, idQuery>>

-----------------------------------------------------------------------------
(* Bounds of the model *)

MaxUsers == 2
MaxTokens == 1
MaxBlogs == 3
MaxInflight == 2
MaxTicks == 2

(* Program constants *)

TokenTTL == 3600
BcryptCost == 12

-----------------------------------------------------------------------------
(* Inputs *)

Usernames == {"ann", "bob"}
Emails == {"a@x", "b@x"}
GoodPassword == "pw"
Passwords == {GoodPassword, "bad"}

Slots == 1..MaxInflight
Idle == [pc |-> "idle"]

\* A field that was never set, or was set to undefined.
Undefined == <<>>

TickStep == TokenTTL \div 2

-----------------------------------------------------------------------------
(* bcrypt *)

\* bcrypt.hash(password, cost): one-way, so the hash is not the password.
BcryptHash(password, cost) == <<"bcrypt", cost, password>>

\* bcrypt.compare(password, hash)
BcryptCompare(password, hash) ==
    /\ Len(hash) = 3
    /\ hash = BcryptHash(password, hash[2])

-----------------------------------------------------------------------------
(* The document store *)

\* Model.findOne(filter), given the documents that satisfy the filter in
\* natural order: the first of them, or Undefined (null) when there is none.
FindOne(hits) == IF hits = <<>> THEN Undefined ELSE Head(hits)

\* The documents of a collection, as a set.
Docs(coll) == {coll[i] : i \in DOMAIN coll}

\* ObjectId.toString(), which the `id` getter of a document returns.
HexString(oid) == <<"hex", oid>>

\* The role the User schema gives a new document.
DefaultRole == "user"

\* new User({username, email, password}), with the driver's fresh _id.
NewUser(oid, username, email, password) ==
    [_id |-> oid, username |-> username, email |-> email,
     password |-> password, role |-> DefaultRole, lastLogin |-> Undefined]

\* res.json(doc): JSON.stringify drops a property whose value is undefined.
ToJSON(doc) ==
    [f \in {g \in DOMAIN doc :
              g \in {"password", "lastLogin"} => doc[g] # Undefined} |-> doc[f]]

\* The lowest slot that holds no suspended request.
FreeSlot == CHOOSE s \in Slots : reqs[s] = Idle /\ \A r \in Slots : r < s => reqs[r] # Idle

HasFreeSlot == \E s \in Slots : reqs[s] = Idle

Inflight(pcs) == Cardinality({s \in Slots : reqs[s].pc \in pcs})

\* res.status(status).json(body), with the cookie res.cookie set, if any.
Response(op, req, status, body, cookie) ==
    [op |-> op, req |-> req, status |-> status, body |-> body, cookie |-> cookie]

-----------------------------------------------------------------------------
(* The token codec *)

Secret == "JWT_SECRET"

\* jwt.sign(claim, JWT_SECRET, {expiresIn: '1h'}) at time t.
Sign(claim, t) ==
    [userId |-> claim.userId, role |-> claim.role, email |-> claim.email,
     iat |-> t, exp |-> t + TokenTTL, sig |-> Secret]

\* A verification that still accepts a token at the second of its expiry.
VerifyLate(token, t) ==
    IF token.sig # Secret THEN [error |-> "JsonWebTokenError"]
    ELSE IF t > token.exp THEN [error |-> "TokenExpiredError"]
    ELSE [error |-> "none",
          decoded |-> [userId |-> token.userId, role |-> token.role,
                       email |-> token.email, iat |-> token.iat,
                       exp |-> token.exp]]

\* jwt.verify(token, JWT_SECRET) at time t: the signature is checked before
\* the expiry; the payload is returned when both pass.
Verify(token, t) ==
    IF token.sig # Secret THEN [error |-> "JsonWebTokenError"]
    ELSE IF t >= token.exp THEN [error |-> "TokenExpiredError"]
    ELSE [error |-> "none",
          decoded |-> [userId |-> token.userId, role |-> token.role,
                       email |-> token.email, iat |-> token.iat,
                       exp |-> token.exp]]

\* Tokens a client can build without the secret.
Forged ==
    {[userId |-> HexString(1), role |-> "author", email |-> "a@x",
      iat |-> 0, exp |-> e, sig |-> "other"] : e \in {0, (MaxTicks + 1) * TokenTTL}}

\* What a request can carry as its `token` cookie.
Cookies == {Undefined} \cup minted \cup Forged

\* authenticateToken: the response it sends, or the claim it attaches.
AuthenticateToken(cookie, t) ==
    IF cookie = Undefined
    THEN [next |-> FALSE, status |-> 401,
          body |-> [message |-> "Authenticarion required"]]
    ELSE LET v == Verify(cookie, t)
         IN  IF v.error = "none" THEN [next |-> TRUE, user |-> v.decoded]
             ELSE IF v.error = "TokenExpiredError"
             THEN [next |-> FALSE, status |-> 401,
                   body |-> [message |-> "Token Expired"]]
             ELSE [next |-> FALSE, status |-> 403,
                   body |-> [message |-> "Invalid token"]]

-----------------------------------------------------------------------------
(* POST /api/register *)

\* A lookup that asks for both fields to match ($and in place of $or).
ExistingUserBoth(username, email) ==
    FindOne(SelectSeq(users, LAMBDA u : u.email = email /\ u.username = username))

\* User.findOne({$or: [{email}, {username}]})
ExistingUser(username, email) ==
    FindOne(SelectSeq(users, LAMBDA u : u.email = email \/ u.username = username))

\* The request arrives and its existence lookup runs: 400 on a hit, else the
\* handler goes on to hash the password.
RegisterFind(username, email, password) ==
    LET req == [username |-> username, email |-> email, password |-> password]
    IN  /\ HasFreeSlot
        /\ IF ExistingUser(username, email) # Undefined
           THEN /\ last' = Response("register", req, 400,
                     [message |-> "User with this email or username already exists"],
                     Undefined)
                /\ UNCHANGED reqs
           ELSE /\ Len(users) + Inflight({"reg_hash", "reg_save"}) < MaxUsers
                /\ reqs' = [reqs EXCEPT ![FreeSlot] =
                              [pc |-> "reg_hash", req |-> req]]
                /\ UNCHANGED last
        /\ UNCHANGED <<users, blogs, minted, now, nextId, idQuery>>

\* bcrypt.hash(password, 12) resolves.
RegisterHash(s) ==
    /\ reqs[s].pc = "reg_hash"
    /\ reqs' = [reqs EXCEPT ![s] =
                  [pc |-> "reg_save", req |-> reqs[s].req,
                   hashed |-> BcryptHash(reqs[s].req.password, BcryptCost)]]
    /\ UNCHANGED <<users, blogs, minted, now, last, nextId, idQuery>>

\* newUser.save() resolves; the password is cleared on the in-memory
\* document and the document is sent back.
RegisterSave(s) ==
    LET f == reqs[s]
        newUser == NewUser(nextId, f.req.username, f.req.email, f.hashed)
    IN  /\ f.pc = "reg_save"
        /\ users' = Append(users, newUser)
        /\ nextId' = nextId + 1
        /\ last' = Response("register", f.req, 201,
               [message |-> "User created successfully:",
                user |-> ToJSON([newUser EXCEPT !.password = Undefined])],
               Undefined)
        /\ reqs' = [reqs EXCEPT ![s] = Idle]
        /\ UNCHANGED <<blogs, minted, now, idQuery>>

-----------------------------------------------------------------------------
(* POST /api/login *)

\* User.findOne({email}).select('+password')
UserByEmail(email) == FindOne(SelectSeq(users, LAMBDA u : u.email = email))

InvalidCredentials == [message |-> "Invalid credentials"]

\* A login that tells an unknown email apart from a wrong password.
LoginFindLeaky(email, password) ==
    LET req == [email |-> email, password |-> password]
        user == UserByEmail(email)
    IN  /\ HasFreeSlot
        /\ IF user = Undefined
           THEN /\ last' = Response("login", req, 404,
                               [message |-> "User not found"], Undefined)
                /\ UNCHANGED reqs
           ELSE /\ BcryptCompare(password, user.password) =>
                     Cardinality(minted) + Inflight({"login_compare", "login_save"})
                        < MaxTokens
                /\ reqs' = [reqs EXCEPT ![FreeSlot] =
                              [pc |-> "login_compare", req |-> req, user |-> user]]
                /\ UNCHANGED last
        /\ UNCHANGED <<users, blogs, minted, now, nextId, idQuery>>

\* The request arrives and its lookup runs: 401 when no user has the email
\* (bcrypt.compare is then not called), else the handler goes on to compare.
LoginFind(email, password) ==
    LET req == [email |-> email, password |-> password]
        user == UserByEmail(email)
    IN  /\ HasFreeSlot
        /\ IF user = Undefined
           THEN /\ last' = Response("login", req, 401, InvalidCredentials, Undefined)
                /\ UNCHANGED reqs
           ELSE /\ BcryptCompare(password, user.password) =>
                     Cardinality(minted) + Inflight({"login_compare", "login_save"})
                        < MaxTokens
                /\ reqs' = [reqs EXCEPT ![FreeSlot] =
                              [pc |-> "login_compare", req |-> req, user |-> user]]
                /\ UNCHANGED last
        /\ UNCHANGED <<users, blogs, minted, now, nextId, idQuery>>

\* bcrypt.compare resolves: 401 on a mismatch, else lastLogin is set on the
\* in-memory document and its save is issued.
LoginCompare(s) ==
    LET f == reqs[s]
    IN  /\ f.pc = "login_compare"
        /\ IF ~BcryptCompare(f.req.password, f.user.password)
           THEN /\ last' = Response("login", f.req, 401, InvalidCredentials, Undefined)
                /\ reqs' = [reqs EXCEPT ![s] = Idle]
           ELSE /\ reqs' = [reqs EXCEPT ![s] =
                              [pc |-> "login_save", req |-> f.req,
                               user |-> [f.user EXCEPT !.lastLogin = <<now>>]]]
                /\ UNCHANGED last
        /\ UNCHANGED <<users, blogs, minted, now, nextId, idQuery>>

\* user.save(): the modified path, lastLogin, is written to the stored
\* document with the in-memory document's _id.
SaveLastLogin(coll, user) ==
    [i \in DOMAIN coll |->
        IF coll[i]._id = user._id
        THEN [coll[i] EXCEPT !.lastLogin = user.lastLogin]
        ELSE coll[i]]

\* The claim login signs for a User: {userId: user.id, role, email}.
ClaimOf(user) ==
    [userId |-> HexString(user._id), role |-> user.role, email |-> user.email]

\* user.save() resolves; the token is signed and set as the cookie.
LoginSave(s) ==
    LET f == reqs[s]
        token == Sign(ClaimOf(f.user), now)
    IN  /\ f.pc = "login_save"
        /\ users' = SaveLastLogin(users, f.user)
        /\ minted' = minted \cup {token}
        /\ last' = Response("login", f.req, 200,
               [message |-> "Login successful",
                user |-> [id |-> HexString(f.user._id),
                          username |-> f.user.username,
                          email |-> f.user.email, role |-> f.user.role]],
               token)
        /\ reqs' = [reqs EXCEPT ![s] = Idle]
        /\ UNCHANGED <<blogs, now, nextId, idQuery>>

-----------------------------------------------------------------------------
(* GET /protected *)

Protected(cookie) ==
    LET a == AuthenticateToken(cookie, now)
    IN  /\ last' = IF a.next
                   THEN Response("protected", [cookie |-> cookie], 200,
                            [message |-> "This is protected data", user |-> a.user],
                            Undefined)
                   ELSE Response("protected", [cookie |-> cookie], a.status, a.body,
                            Undefined)
        /\ UNCHANGED <<users, blogs, reqs, minted, now, nextId, idQuery>>

-----------------------------------------------------------------------------
(* The environment *)

\* Time passes.
Tick ==
    /\ now + TickStep <= MaxTicks * TickStep
    /\ now' = now + TickStep
    /\ UNCHANGED <<users, blogs, reqs, minted, last, nextId, idQuery>>

\* A User is made an author.  No route of main.js sets a role: registration
\* leaves it to the schema default, so an author is made out of band.
GrantRole(i) ==
    /\ users[i].role # "author"
    /\ users' = [users EXCEPT ![i].role = "author"]
    /\ UNCHANGED <<blogs, reqs, minted, now, last, nextId, idQuery>>

-----------------------------------------------------------------------------
(* The authentication routes *)

\* The store is empty; the `id` filter, which these routes never use, is fixed.
InitAuth ==
    /\ users = <<>>
    /\ blogs = <<>>
    /\ reqs = [s \in Slots |-> Idle]
    /\ minted = {}
    /\ now = 0
    /\ last = [op |-> "none"]
    /\ nextId = 1
    /\ idQuery = "pass"

NextAuth ==
    \/ \E u \in Usernames, e \in Emails : RegisterFind(u, e, GoodPassword)
    \/ \E s \in Slots : RegisterHash(s)
    \/ \E s \in Slots : RegisterSave(s)
    \/ \E e \in Emails, p \in Passwords : LoginFind(e, p)
    \/ \E s \in Slots : LoginCompare(s)
    \/ \E s \in Slots : LoginSave(s)
    \/ \E c \in Cookies : Protected(c)
    \/ Tick
    \/ \E i \in DOMAIN users : GrantRole(i)

SpecAuth == InitAuth /\ [][NextAuth]_vars

-----------------------------------------------------------------------------
(* slugify(title, {lower: true}) *)

Whitespace == {" "}

\* The characters slugify's default `remove` pattern keeps, among those the
\* titles of the model use: word characters, whitespace and the hyphen.
Kept == {"H", "h", "i", "1", " ", "-"}

LowerCase(ch) == IF ch = "H" THEN "h" ELSE ch

\* Per character: the replacement character becomes a space, and what the
\* `remove` pattern matches is dropped.
RECURSIVE MapChars(_)
MapChars(str) ==
    IF str = <<>> THEN <<>>
    ELSE LET ch == Head(str)
         IN  (IF ch = "-" THEN <<" ">>
              ELSE IF ch \in Kept THEN <<ch>>
              ELSE <<>>) \o MapChars(Tail(str))

RECURSIVE TrimStart(_)
TrimStart(str) ==
    IF str # <<>> /\ Head(str) \in Whitespace THEN TrimStart(Tail(str)) ELSE str

RECURSIVE TrimEnd(_)
TrimEnd(str) ==
    IF str # <<>> /\ str[Len(str)] \in Whitespace
    THEN TrimEnd(SubSeq(str, 1, Len(str) - 1))
    ELSE str

\* String.replace(/\s+/g, '-')
RECURSIVE ReplaceSpaces(_)
ReplaceSpaces(str) ==
    IF str = <<>> THEN <<>>
    ELSE IF Head(str) \in Whitespace
    THEN <<"-">> \o ReplaceSpaces(TrimStart(str))
    ELSE <<Head(str)>> \o ReplaceSpaces(Tail(str))

Slugify(title) ==
    LET replaced == ReplaceSpaces(TrimEnd(TrimStart(MapChars(title))))
    IN  [i \in DOMAIN replaced |-> LowerCase(replaced[i])]

\* The decimal digits of a natural number, as a template literal prints it.
RECURSIVE ToStr(_)
ToStr(n) ==
    LET digit == <<"0", "1", "2", "3", "4", "5", "6", "7", "8", "9">>[(n % 10) + 1]
    IN  IF n < 10 THEN <<digit>> ELSE ToStr(n \div 10) \o <<digit>>

\* A suffix that counts from zero.
SuffixedFromZero(title, count) == Slugify(title) \o <<"-">> \o ToStr(count - 1)

\* `${slugify(title, {lower: true})}-${count}`
Suffixed(title, count) == Slugify(title) \o <<"-">> \o ToStr(count)

Titles == {<<"H", "i">>, <<"h", "i", "?">>, <<"H", "i", " ", "-", " ", "1">>}

-----------------------------------------------------------------------------
(* Role authorization and the Blog collection *)

\* A role check that sends 403 without returning, so next() is called anyway.
AuthorizeRoleFallsThrough(role, user) == TRUE

\* authorizeRole(role): TRUE when next() is called.
AuthorizeRole(role, user) == ~(user.role # role)

AccessDenied == [message |-> "Access denied"]

\* authenticateToken, then authorizeRole('author'): the response the chain
\* sends, or the claim the handler runs with.
AuthorChain(cookie, t) ==
    LET a == AuthenticateToken(cookie, t)
    IN  IF ~a.next THEN a
        ELSE IF ~AuthorizeRole("author", a.user)
        THEN [next |-> FALSE, status |-> 403, body |-> AccessDenied]
        ELSE a

\* The status the Blog schema gives a new document.
DefaultStatus == "draft"

\* Blog({title, subtitle, content, slug, author}), with the driver's fresh _id.
NewBlog(oid, title, slug, author) ==
    [_id |-> oid, title |-> title, subtitle |-> "sub", content |-> "text",
     slug |-> slug, author |-> author, status |-> DefaultStatus]

\* Blog.findOne({slug})
BlogBySlug(slug) == FindOne(SelectSeq(blogs, LAMBDA b : b.slug = slug))

\* User.findOne({id: userId}).  `id` is the getter for _id.toString(); what a
\* filter on it matches depends on the build: the key is stripped from the
\* filter (strictQuery on: the filter is empty and the first User matches), or
\* it is passed to the store (no stored field `id`: nothing matches), or the
\* schema declares a path `id` holding that string.
UserById(mode, userId) ==
    CASE mode = "stripped" -> FindOne(SelectSeq(users, LAMBDA u : TRUE))
      [] mode = "passed" -> FindOne(SelectSeq(users, LAMBDA u : FALSE))
      [] mode = "declared" -> FindOne(SelectSeq(users, LAMBDA u : HexString(u._id) = userId))

IdQueryModes == {"stripped", "passed", "declared"}

\* The Blogs created so far, deleted or not: every _id past the Users'.
BlogsCreated == nextId - 1 - Len(users)

BlogPcs == {"slug_first", "slug_loop", "blog_save"}

-----------------------------------------------------------------------------
(* POST /api/blogs *)

\* The request arrives, passes the middleware chain or is answered by it, and
\* the caller's User is looked up: 401 when there is none, else
\* generateUniqueSlug starts with the bare slug.
CreateBlogStart(cookie, title) ==
    LET req == [cookie |-> cookie, title |-> title]
        a == AuthorChain(cookie, now)
        user == UserById(idQuery, a.user.userId)
    IN  /\ HasFreeSlot
        /\ IF ~a.next
           THEN /\ last' = Response("createBlog", req, a.status, a.body, Undefined)
                /\ UNCHANGED reqs
           ELSE IF user = Undefined
           THEN /\ last' = Response("createBlog", req, 401, InvalidCredentials,
                                    Undefined)
                /\ UNCHANGED reqs
           ELSE /\ BlogsCreated + Inflight(BlogPcs) < MaxBlogs
                /\ reqs' = [reqs EXCEPT ![FreeSlot] =
                              [pc |-> "slug_first", req |-> req, claim |-> a.user,
                               user |-> user, slug |-> Slugify(title), count |-> 1]]
                /\ UNCHANGED last
        /\ UNCHANGED <<users, blogs, minted, now, nextId, idQuery>>

\* The lookup of the bare slug resolves: a free slug is returned, a taken
\* one starts the loop with the first suffixed candidate.
SlugFirst(s) ==
    LET f == reqs[s]
    IN  /\ f.pc = "slug_first"
        /\ reqs' = [reqs EXCEPT ![s] =
                      IF BlogBySlug(f.slug) # Undefined
                      THEN [f EXCEPT !.pc = "slug_loop",
                                     !.slug = Suffixed(f.req.title, f.count)]
                      ELSE [f EXCEPT !.pc = "blog_save"]]
        /\ UNCHANGED <<users, blogs, minted, now, last, nextId, idQuery>>

\* A lookup inside the loop resolves and count is incremented: a free slug
\* is returned, a taken one gives way to the next candidate.
SlugLoop(s) ==
    LET f == reqs[s]
    IN  /\ f.pc = "slug_loop"
        /\ reqs' = [reqs EXCEPT ![s] =
                      IF BlogBySlug(f.slug) # Undefined
                      THEN [f EXCEPT !.slug = Suffixed(f.req.title, f.count + 1),
                                     !.count = f.count + 1]
                      ELSE [f EXCEPT !.pc = "blog_save", !.count = f.count + 1]]
        /\ UNCHANGED <<users, blogs, minted, now, last, nextId, idQuery>>

\* newBlog.save() resolves and the document is sent back.
BlogSave(s) ==
    LET f == reqs[s]
        newBlog == NewBlog(nextId, f.req.title, f.slug, f.user._id)
    IN  /\ f.pc = "blog_save"
        /\ blogs' = Append(blogs, newBlog)
        /\ nextId' = nextId + 1
        /\ last' = Response("createBlog", f.req, 201,
               [message |-> "Blog post created", blog |-> newBlog], Undefined)
        /\ reqs' = [reqs EXCEPT ![s] = Idle]
        /\ UNCHANGED <<users, minted, now, idQuery>>

-----------------------------------------------------------------------------
(* DELETE /api/blogs/:slug *)

\* The slugs a DELETE request names.
SlugParams ==
    {Slugify(t) : t \in Titles} \cup {Suffixed(t, 1) : t \in Titles}

\* A findOne in place of findOneAndDelete: nothing is removed.
DeleteNothing(coll, slug) == coll

\* What findOneAndDelete leaves: the collection without its first match.
RECURSIVE DeleteFirst(_, _)
DeleteFirst(coll, slug) ==
    IF coll = <<>> THEN <<>>
    ELSE IF Head(coll).slug = slug THEN Tail(coll)
    ELSE <<Head(coll)>> \o DeleteFirst(Tail(coll), slug)

\* The request arrives, passes the middleware chain or is answered by it, and
\* Blog.findOneAndDelete({slug}) runs.
DeleteBlog(cookie, slug) ==
    LET req == [cookie |-> cookie, slug |-> slug]
        a == AuthorChain(cookie, now)
    IN  /\ IF ~a.next
           THEN /\ last' = Response("deleteBlog", req, a.status, a.body, Undefined)
                /\ UNCHANGED blogs
           ELSE IF BlogBySlug(slug) = Undefined
           THEN /\ last' = Response("deleteBlog", req, 404,
                     [message |-> "Blog not found or not authorized"], Undefined)
                /\ UNCHANGED blogs
           ELSE /\ blogs' = DeleteFirst(blogs, slug)
                /\ last' = Response("deleteBlog", req, 200,
                     [message |-> "Blog deleted"], Undefined)
        /\ UNCHANGED <<users, reqs, minted, now, nextId, idQuery>>

-----------------------------------------------------------------------------
(* GET /api/blogs and GET /api/blogs/author/:username *)

\* The status both listings filter on.
ListedStatus == "draft"

\* .sort({createdAt: -1}): newest first; the collection is in creation order.
RECURSIVE NewestFirst(_)
NewestFirst(coll) ==
    IF coll = <<>> THEN <<>>
    ELSE NewestFirst(Tail(coll)) \o <<Head(coll)>>

\* .select('-author'): the document without the field.
Without(doc, field) == [f \in DOMAIN doc \ {field} |-> doc[f]]

\* Blog.find({status: 'draft'}).sort({createdAt: -1}).select('-__v -comments -author')
ListedBlogs ==
    LET hits == NewestFirst(SelectSeq(blogs, LAMBDA b : b.status = ListedStatus))
    IN  [i \in DOMAIN hits |-> Without(hits[i], "author")]

\* Blog.find({status: 'draft', author}).sort({createdAt: -1}).select('-__v -comments')
ListedBlogsBy(author) ==
    NewestFirst(SelectSeq(blogs,
        LAMBDA b : b.status = ListedStatus /\ b.author = author))

GetBlogs ==
    /\ last' = Response("getBlogs", [path |-> "/api/blogs"], 200,
           [message |-> "List of published posts", blogs |-> ListedBlogs],
           Undefined)
    /\ UNCHANGED <<users, blogs, reqs, minted, now, nextId, idQuery>>

GetBlogsByAuthor(username) ==
    LET user == FindOne(SelectSeq(users, LAMBDA u : u.username = username))
    IN  /\ last' = IF user = Undefined
                   THEN Response("getBlogsByAuthor", [username |-> username], 401,
                            [message |-> "Author not found"], Undefined)
                   ELSE Response("getBlogsByAuthor", [username |-> username], 200,
                            [message |-> <<"List of published posts by ", username>>,
                             blog |-> ListedBlogsBy(user._id)], Undefined)
        /\ UNCHANGED <<users, blogs, reqs, minted, now, nextId, idQuery>>

\* A Blog is published.  No route of main.js sets a status: creation leaves it
\* to the schema default, so a Blog is published out of band.
Publish(i) ==
    /\ blogs[i].status # "published"
    /\ blogs' = [blogs EXCEPT ![i].status = "published"]
    /\ UNCHANGED <<users, reqs, minted, now, last, nextId, idQuery>>

-----------------------------------------------------------------------------
(* The blog routes, over a store that holds a reader and an author, both    *)
(* logged in.                                                               *)

Ann == [NewUser(1, "ann", "a@x", BcryptHash(GoodPassword, BcryptCost))
            EXCEPT !.lastLogin = <<0>>]

Bob == [NewUser(2, "bob", "b@x", BcryptHash(GoodPassword, BcryptCost))
            EXCEPT !.lastLogin = <<0>>, !.role = "author"]

\* What a request to a blog route carries as its cookie: nothing, the
\* reader's token or the author's.
BlogCookies == {Undefined} \cup minted

AuthorNames == Usernames \cup {"eve"}

InitBlog ==
    /\ users = <<Ann, Bob>>
    /\ blogs = <<>>
    /\ reqs = [s \in Slots |-> Idle]
    /\ minted = {Sign(ClaimOf(Ann), 0), Sign(ClaimOf(Bob), 0)}
    /\ now = 0
    /\ last = [op |-> "none"]
    /\ nextId = 3
    /\ idQuery \in IdQueryModes

NextBlog ==
    \/ \E c \in BlogCookies, t \in Titles : CreateBlogStart(c, t)
    \/ \E s \in Slots : SlugFirst(s)
    \/ \E s \in Slots : SlugLoop(s)
    \/ \E s \in Slots : BlogSave(s)
    \/ \E c \in BlogCookies, g \in SlugParams : DeleteBlog(c, g)
    \/ GetBlogs
    \/ \E u \in AuthorNames : GetBlogsByAuthor(u)
    \/ \E i \in DOMAIN blogs : Publish(i)

SpecBlog == InitBlog /\ [][NextBlog]_vars

-----------------------------------------------------------------------------
(* Requests handled one at a time: a request arrives only when no handler   *)
(* is suspended.                                                            *)

AllIdle == \A s \in Slots : reqs[s] = Idle

NextAuthSeq ==
    \/ AllIdle /\ \E u \in Usernames, e \in Emails : RegisterFind(u, e, GoodPassword)
    \/ \E s \in Slots : RegisterHash(s)
    \/ \E s \in Slots : RegisterSave(s)
    \/ AllIdle /\ \E e \in Emails, p \in Passwords : LoginFind(e, p)
    \/ \E s \in Slots : LoginCompare(s)
    \/ \E s \in Slots : LoginSave(s)
    \/ AllIdle /\ \E c \in Cookies : Protected(c)
    \/ Tick
    \/ \E i \in DOMAIN users : GrantRole(i)

SpecAuthSeq == InitAuth /\ [][NextAuthSeq]_vars

NextBlogSeq ==
    \/ AllIdle /\ \E c \in BlogCookies, t \in Titles : CreateBlogStart(c, t)
    \/ \E s \in Slots : SlugFirst(s)
    \/ \E s \in Slots : SlugLoop(s)
    \/ \E s \in Slots : BlogSave(s)
    \/ AllIdle /\ \E c \in BlogCookies, g \in SlugParams : DeleteBlog(c, g)
    \/ AllIdle /\ GetBlogs
    \/ AllIdle /\ \E u \in AuthorNames : GetBlogsByAuthor(u)
    \/ \E i \in DOMAIN blogs : Publish(i)

SpecBlogSeq == InitBlog /\ [][NextBlogSeq]_vars

-----------------------------------------------------------------------------
(* The whole program, from an empty store.  The authentication routes never *)
(* read the Blogs and the blog routes never write the Users or the cookies, *)
(* so the two groups of routes are checked apart: SpecAuth from the empty   *)
(* store, SpecBlog from a store the authentication routes have filled.      *)

Init ==
    /\ users = <<>>
    /\ blogs = <<>>
    /\ reqs = [s \in Slots |-> Idle]
    /\ minted = {}
    /\ now = 0
    /\ last = [op |-> "none"]
    /\ nextId = 1
    /\ idQuery \in IdQueryModes

Next == NextAuth \/ NextBlog

Spec == Init /\ [][Next]_vars

-----------------------------------------------------------------------------
(* Properties.  A step sends a response when `last` changes; a request that *)
(* repeats the previous one and gets the same response again leaves every   *)
(* variable alone.                                                          *)

Sent(op) == last' # last /\ last'.op = op

Ids(coll) == {coll[i]._id : i \in DOMAIN coll}

\* The cookie is a token that verifies now: signed with the secret, unexpired.
ValidToken(cookie) == cookie # Undefined /\ Verify(cookie, now).error = "none"

\* C1: with POST /api/register requests handled one at a time, a request
\* whose email or username is that of a stored User gets 400 and adds no
\* User; a request whose email and username are both new gets 201 and adds
\* exactly one User, and the user object returned has no password field.
\* Nothing else changes the number of Users.
C1_RegisterOneAtATime ==
    [][ /\ Sent("register") =>
             LET r == last'.req
             IN  IF \E u \in Docs(users) :
                       u.email = r.email \/ u.username = r.username
                 THEN last'.status = 400 /\ users' = users
                 ELSE /\ last'.status = 201
                      /\ Len(users') = Len(users) + 1
                      /\ SubSeq(users', 1, Len(users)) = users
                      /\ users'[Len(users')].username = r.username
                      /\ users'[Len(users')].email = r.email
                      /\ "password" \notin DOMAIN last'.body.user
                      /\ last'.body.user.username = r.username
                      /\ last'.body.user.email = r.email
        /\ Len(users') # Len(users) => Sent("register") /\ last'.status = 201
      ]_vars

\* Two Users are stored and a further registration was rejected.
C1_Witness ==
    /\ last.op = "register"
    /\ last.status = 400
    /\ Len(users) = 2

C7_ProtectedByLoginToken ==
    [][ /\ (Sent("protected") /\ last'.req.cookie \in minted) =>
             LET c == last'.req.cookie
             IN  IF now < c.iat + TokenTTL
                 THEN /\ last'.status = 200
                      /\ last'.body.user.userId = c.userId
                 ELSE /\ last'.status = 401
                      /\ last'.body = [message |-> "Token Expired"]
        /\ (Sent("login") /\ last'.status = 200) =>
             /\ last'.cookie \in minted'
             /\ last'.cookie.iat = now
             /\ last'.cookie.userId = last'.body.user.id
             /\ \E u \in Docs(users') :
                   /\ u.email = last'.req.email
                   /\ HexString(u._id) = last'.cookie.userId
      ]_vars

\* A token minted by login was presented after its expiry.
C7_Witness ==
    /\ last.op = "protected"
    /\ last.req.cookie \in minted
    /\ last.status = 401
    /\ now >= last.req.cookie.iat + TokenTTL

\* C8: a login with an email no User has and a login with a wrong password
\* get the same response, 401 "Invalid credentials" with no cookie, and
\* change no User and mint no token.  (Every User registers with
\* GoodPassword, so any other password is a wrong one.)
C8_UniformLoginFailure ==
    [][ (/\ Sent("login")
         /\ \/ \A u \in Docs(users) : u.email # last'.req.email
            \/ last'.req.password # GoodPassword) =>
             /\ last'.status = 401
             /\ last'.body = [message |-> "Invalid credentials"]
             /\ last'.cookie = Undefined
             /\ users' = users
             /\ minted' = minted
      ]_vars

\* A login with a stored email and a wrong password was rejected after some
\* User had logged in.
C8_Witness ==
    /\ last.op = "login"
    /\ last.status = 401
    /\ \E u \in Docs(users) : u.email = last.req.email /\ u.lastLogin # Undefined
    /\ last.req.password # GoodPassword

-----------------------------------------------------------------------------
(* Properties of the blog routes *)

\* No Blog has been deleted: every Blog created is still stored.
NoDeletions == Len(blogs) = BlogsCreated

\* All stored Blogs have titles with the same base slug.
SameBase ==
    \A i \in DOMAIN blogs : Slugify(blogs[i].title) = Slugify(blogs[1].title)

\* C2: with blog creations handled one at a time, titles that all normalize
\* to one base slug and no deletion, the first Blog has the bare base slug,
\* the k-th later one has the base slug followed by -k, and the slugs are
\* pairwise distinct.
C2_SlugSequence ==
    (NoDeletions /\ SameBase) =>
        /\ \A k \in DOMAIN blogs :
              blogs[k].slug =
                 IF k = 1 THEN Slugify(blogs[1].title)
                 ELSE Slugify(blogs[1].title) \o <<"-">> \o ToStr(k - 1)
        /\ \A i, j \in DOMAIN blogs : i # j => blogs[i].slug # blogs[j].slug

\* Three Blogs with one base slug, from two different titles, none deleted.
C2_Witness ==
    /\ Len(blogs) = 3
    /\ NoDeletions
    /\ SameBase
    /\ \E i \in DOMAIN blogs : blogs[i].title # blogs[1].title

C5_RoleGate ==
    [][ /\ \A op \in {"createBlog", "deleteBlog"} :
             (/\ Sent(op)
              /\ ValidToken(last'.req.cookie)
              /\ last'.req.cookie.role # "author") =>
                 /\ last'.status = 403
                 /\ last'.body = [message |-> "Access denied"]
                 /\ blogs' = blogs
                 /\ reqs' = reqs
        /\ \A s \in Slots :
             reqs'[s].pc \in BlogPcs =>
                 ~(/\ ValidToken(reqs'[s].req.cookie)
                   /\ reqs'[s].req.cookie.role # "author")
      ]_vars

\* A reader was denied the deletion of a Blog that is stored.
C5_Witness ==
    /\ last.op = "deleteBlog"
    /\ last.status = 403
    /\ ValidToken(last.req.cookie)
    /\ \E b \in Docs(blogs) : b.slug = last.req.slug

\* coll without its i-th document.
RemoveAt(coll, i) ==
    [j \in 1..(Len(coll) - 1) |-> IF j < i THEN coll[j] ELSE coll[j + 1]]

\* C6: an authorized DELETE of a slug no Blog has gets 404 and leaves the
\* store alone; of a slug some Blog has gets 200 and removes exactly one Blog
\* with that slug.  A Blog leaves the store only so, a Blog once removed never
\* returns (a new Blog has a fresh _id), and GET /api/blogs lists only Blogs
\* that are stored.
C6_DeleteThenList ==
    [][ /\ (/\ Sent("deleteBlog")
            /\ ValidToken(last'.req.cookie)
            /\ last'.req.cookie.role = "author") =>
               IF \A b \in Docs(blogs) : b.slug # last'.req.slug
               THEN last'.status = 404 /\ blogs' = blogs
               ELSE /\ last'.status = 200
                    /\ \E i \in DOMAIN blogs :
                          /\ blogs[i].slug = last'.req.slug
                          /\ blogs' = RemoveAt(blogs, i)
        /\ Ids(blogs) \ Ids(blogs') # {} =>
               /\ last'.op = "deleteBlog"
               /\ last'.status = 200
               /\ \E i \in DOMAIN blogs :
                     /\ blogs[i].slug = last'.req.slug
                     /\ blogs' = RemoveAt(blogs, i)
        /\ \A id \in Ids(blogs') \ Ids(blogs) : id >= nextId
        /\ \A id \in Ids(blogs') : id < nextId'
        /\ Sent("getBlogs") => Ids(last'.body.blogs) \subseteq Ids(blogs')
      ]_vars

\* A Blog was deleted while another stayed, and the listing was then read.
C6_Witness ==
    /\ last.op = "getBlogs"
    /\ blogs # <<>>
    /\ Len(blogs) < BlogsCreated

\* C9: an authorized creation whose token's userId is the id of a stored User
\* persists a Blog whose author is that User; one whose userId is no User's id
\* gets 401 "Invalid credentials" and persists nothing.
C9_AuthorIsCaller ==
    [][ (/\ Sent("createBlog")
         /\ ValidToken(last'.req.cookie)
         /\ last'.req.cookie.role = "author") =>
            LET callers == {u \in Docs(users) :
                              HexString(u._id) = last'.req.cookie.userId}
            IN  IF callers = {}
                THEN /\ last'.status = 401
                     /\ last'.body = [message |-> "Invalid credentials"]
                     /\ blogs' = blogs
                ELSE /\ last'.status = 201
                     /\ Len(blogs') = Len(blogs) + 1
                     /\ blogs'[Len(blogs')].author \in {u._id : u \in callers}
      ]_vars

\* C10: GET /api/blogs returns all and only the published Blogs, and GET
\* /api/blogs/author/:username all and only the published Blogs of that
\* author.
C10_ListsPublished ==
    [][ /\ Sent("getBlogs") =>
             Ids(last'.body.blogs) =
                {b._id : b \in {d \in Docs(blogs') : d.status = "published"}}
        /\ (Sent("getBlogsByAuthor") /\ last'.status = 200) =>
             Ids(last'.body.blog) =
                {b._id : b \in {d \in Docs(blogs') :
                    /\ d.status = "published"
                    /\ \E u \in Docs(users) :
                          u.username = last'.req.username /\ u._id = d.author}}
      ]_vars

=============================================================================
